---- MODULE Spec2Model ----
(***************************************************************************)
(* Model of compression_toolkit: the tANS entropy coder (src/src/tans.rs)  *)
(* together with the bit reader and bit writer it uses (src/src/io.rs).    *)
(*                                                                         *)
(* u32 values that can exceed 2^31 - 1 (the accumulation register, the     *)
(* accumulated words and the arguments of write_bits / results of          *)
(* read_bits) are 32-bit vectors: functions from bit position 0..31 (bit i *)
(* weighs 2^i) to {0, 1}. Values known to stay below 2^31 (states, table   *)
(* entries, coded_nbits) are naturals.                                     *)
(***************************************************************************)
EXTENDS Integers, Sequences, FiniteSets, TLC

(***************************************************************************)
(* Bounds of the model.                                                    *)
(***************************************************************************)
MaxSbits == 2        \* small distributions: every sbits in 0..MaxSbits
MaxSyms == 2         \* small distributions: alphabets of 1..MaxSyms symbols
MaxShortMsg == 2     \* message length explored for the small distributions
MaxMsg == 5          \* message length explored for the three-symbol distributions
MaxLongMsg == 8      \* message length explored for the 5-bit distribution
MaxRunMsg == 11      \* length of the runs of c with at most one a (example distribution)
MaxFnSbits == 5      \* compute_coded_nbits is applied to every sbits in 0..MaxFnSbits
MaxDecSbits == 3     \* uniform decode tables have 2^k entries, k in 0..MaxDecSbits
MaxInBytes == 1      \* arbitrary decoder inputs have at most this many bytes
MaxDecSteps == 3     \* decode calls explored on an arbitrary input
MaxFields == 2       \* write_bits calls before flush
MaxPlain == 8        \* backref::encode is applied to every input of up to MaxPlain bytes
MaxLit == 2          \* decoded streams: bytes of the literal run before the backreference
MaxCount == 3        \* decoded streams: length of the backreference
MaxBits == 4          \* brc: pairs (p0, bit) encoded
MaxDist == 2         \* decoded streams: low distance byte of the backreference

(***************************************************************************)
(* Program constants.                                                      *)
(***************************************************************************)
WordBits == 32       \* width of the accumulation register (need_bits: 32)
HashBits == 14       \* backref: the rolling hash keeps 14 bits
HashShift == 5       \* backref: the hash shifts by 5 bits a byte
MinMatch == 3        \* backref: a match has at least 3 bytes
MaxRun == 127        \* backref: longest literal run and longest match
Window == 65536      \* backref: a match lies within 0x10000 bytes
RunFlag == 128       \* backref: lead bytes from 0x80 on are backreferences
ByteBits == 8        \* BitReader / BitWriter work on bytes
NbitsShift == 24     \* coded_nbits keeps the bit count above bit 24
MaxStateBits == 24   \* largest sbits the packed selector leaves room for
STATE_BITS == 24     \* brc: bits of the range coder's interval
PROB_BITS == 8       \* brc: bits of a probability p0

(***************************************************************************)
(* 32-bit vectors.                                                         *)
(***************************************************************************)
BitPos == 0..(WordBits - 1)

Zero32 == [i \in BitPos |-> 0]

\* The u32 with value n, for 0 <= n < 2^31.
BV(n) == [i \in BitPos |-> IF i >= 31 THEN 0 ELSE (n \div (2^i)) % 2]

\* a | b
Or32(a, b) == [i \in BitPos |-> IF a[i] = 1 \/ b[i] = 1 THEN 1 ELSE 0]

\* a << k on u32, 0 <= k < 32: bits shifted past bit 31 are dropped.
Shl32(a, k) == [i \in BitPos |-> IF i >= k THEN a[i - k] ELSE 0]

\* a >> k on u32, 0 <= k < 32.
Shr32(a, k) == [i \in BitPos |-> IF i + k < WordBits THEN a[i + k] ELSE 0]

RECURSIVE BitsValue(_, _, _)
\* The value of bits i .. n - 1 of a, bit i weighing 1.
BitsValue(a, i, n) == IF i >= n THEN 0 ELSE a[i] + 2 * BitsValue(a, i + 1, n)

\* The value of the n low bits of a (n <= 31).
LowValue(a, n) == BitsValue(a, 0, n)

\* The value of a u32 known to be below 2^31.
Value(a) == LowValue(a, 31)

RECURSIVE BitLen(_)
\* 32 - x.leading_zeros(): the number of bits needed to write x.
BitLen(x) == IF x = 0 THEN 0 ELSE 1 + BitLen(x \div 2)

RECURSIVE SumSeq(_)
SumSeq(s) == IF s = <<>> THEN 0 ELSE Head(s) + SumSeq(Tail(s))

(***************************************************************************)
(* tans.rs: numeric helpers.                                               *)
(***************************************************************************)
\* compute_coded_nbits subtracting covered where threshold belongs.
compute_coded_nbits_covered(freq, sbits) ==
    IF freq = 0 THEN 0
    ELSE LET low_nbits == sbits - BitLen(freq - 1)
             covered == freq * (2^low_nbits)
         IN  ((low_nbits + 1) * (2^NbitsShift)) - covered

\* compute_coded_nbits treating a frequency of 0 as a frequency of 1.
compute_coded_nbits_clamped(freq, sbits) ==
    LET f == IF freq = 0 THEN 1 ELSE freq
        low_nbits == sbits - BitLen(f - 1)
        covered == f * (2^low_nbits)
        threshold == covered + covered - (2^sbits)
    IN  ((low_nbits + 1) * (2^NbitsShift)) - threshold

\* compute_coded_nbits leaving the threshold out: low_nbits + 1 bits from
\* every state.
compute_coded_nbits_no_threshold(freq, sbits) ==
    IF freq = 0 THEN 0
    ELSE LET low_nbits == sbits - BitLen(freq - 1)
         IN  (low_nbits + 1) * (2^NbitsShift)

\* compute_coded_nbits with the extra bit starting one state late.
compute_coded_nbits_late(freq, sbits) ==
    IF freq = 0 THEN 0
    ELSE LET low_nbits == sbits - BitLen(freq - 1)
             covered == freq * (2^low_nbits)
             threshold == covered + covered - (2^sbits)
         IN  ((low_nbits + 1) * (2^NbitsShift)) - (threshold + 1)

compute_coded_nbits(freq, sbits) ==
    IF freq = 0 THEN 0
    ELSE LET low_nbits == sbits - BitLen(freq - 1)
             covered == freq * (2^low_nbits)
             threshold == covered + covered - (2^sbits)
         IN  ((low_nbits + 1) * (2^NbitsShift)) - threshold

\* compute_stride without the + 3 that makes the stride odd.
compute_stride_even(nstates) ==
    IF nstates <= 8 THEN 5
    ELSE (nstates \div 2) + (nstates \div 8)

compute_stride(nstates) ==
    IF nstates <= 8 THEN 5
    ELSE (nstates \div 2) + (nstates \div 8) + 3

(***************************************************************************)
(* tans.rs: Encoder::new.                                                  *)
(***************************************************************************)
RECURSIVE SymtabLoop_inclusive(_, _, _, _, _)
\* The symbol table loop adding freqs[s] to o before the offset is taken.
SymtabLoop_inclusive(freqs, sbits, s, o, symtab) ==
    IF s > Len(freqs) THEN symtab
    ELSE LET coded_nbits == compute_coded_nbits(freqs[s], sbits)
             offset == ((o + freqs[s]) - freqs[s]) % (2^sbits)
         IN  SymtabLoop_inclusive(freqs, sbits, s + 1, o + freqs[s],
                                  Append(symtab, <<coded_nbits, offset>>))

RECURSIVE SymtabLoop(_, _, _, _, _)
\* for s in 0..nsyms: push (coded_nbits, offset); o += freqs[s]
SymtabLoop(freqs, sbits, s, o, symtab) ==
    IF s > Len(freqs) THEN symtab
    ELSE LET coded_nbits == compute_coded_nbits(freqs[s], sbits)
             \* o.wrapping_sub(freqs[s]) & mask: 2^32 is a multiple of nstates
             offset == (o - freqs[s]) % (2^sbits)
         IN  SymtabLoop(freqs, sbits, s + 1, o + freqs[s],
                        Append(symtab, <<coded_nbits, offset>>))

\* The origin loop advancing the state by 1 where the code advances it by
\* stride.
OriginLoop_unit_stride(total, stride, nstates) ==
    IF total > nstates THEN [panic |-> TRUE, origin |-> <<>>]
    ELSE [panic |-> FALSE,
          origin |-> [o1 \in 1..nstates |->
                         IF o1 <= total THEN o1 % nstates ELSE 0]]

\* The origin loop with the state starting at 0 where the code starts it
\* at stride & mask.
OriginLoop_from_zero(total, stride, nstates) ==
    IF total > nstates THEN [panic |-> TRUE, origin |-> <<>>]
    ELSE [panic |-> FALSE,
          origin |-> [o1 \in 1..nstates |->
                         IF o1 <= total THEN ((o1 - 1) * stride) % nstates ELSE 0]]

\* The two nested loops run once per occurrence, SumSeq(freqs) times in all:
\* iteration k (from 0) assigns origin[k] = s, where s starts at stride & mask
\* and becomes (s + stride) & mask after each assignment, so iteration k
\* stores ((k + 1) * stride) & mask. An index past the end of origin panics.
OriginLoop(total, stride, nstates) ==
    IF total > nstates THEN [panic |-> TRUE, origin |-> <<>>]
    ELSE [panic |-> FALSE,
          origin |-> [o1 \in 1..nstates |->
                         IF o1 <= total THEN (o1 * stride) % nstates ELSE 0]]

NoEncoder ==
    [symtab |-> <<>>, origin |-> <<>>, output |-> <<>>, bits |-> Zero32,
     state |-> 0, nstates |-> 0, need_bits |-> 0]

\* Encoder::new(sbits, freqs); the result is NoEncoder when new panics.
EncoderNew(sbits, freqs) ==
    LET nstates == 2^sbits
        stride == compute_stride(nstates)
        filled == OriginLoop(SumSeq(freqs), stride, nstates)
    IN  IF filled.panic THEN NoEncoder
        ELSE [symtab |-> SymtabLoop(freqs, sbits, 1, 0, <<>>),
              origin |-> filled.origin,
              output |-> <<>>,
              bits |-> Zero32,
              state |-> 0,
              nstates |-> nstates,
              need_bits |-> WordBits]

(***************************************************************************)
(* tans.rs: Encoder::acc_bits, encode_first, encode_sym.                   *)
(***************************************************************************)
RECURSIVE acc_bits_stale(_, _, _)
\* acc_bits keeping the register as it is after pushing it.
acc_bits_stale(self, bits, nbits) ==
    IF nbits = 0 THEN self
    ELSE IF self.need_bits > nbits
    THEN [self EXCEPT
            !.bits = Or32(@, Shl32(BV(bits % (2^nbits)), self.need_bits - nbits)),
            !.need_bits = @ - nbits]
    ELSE LET word == Or32(self.bits, BV(bits \div (2^(nbits - self.need_bits))))
         IN  acc_bits_stale([self EXCEPT !.output = Append(@, word),
                                         !.bits = word,
                                         !.need_bits = WordBits],
                            bits, nbits - self.need_bits)

RECURSIVE acc_bits(_, _, _)
\* self is the encoder record, bits the value to add (a state, below 2^31).
acc_bits(self, bits, nbits) ==
    IF nbits = 0 THEN self
    ELSE IF self.need_bits > nbits
    THEN [self EXCEPT
            !.bits = Or32(@, Shl32(BV(bits % (2^nbits)), self.need_bits - nbits)),
            !.need_bits = @ - nbits]
    ELSE LET word == Or32(self.bits, BV(bits \div (2^(nbits - self.need_bits))))
         IN  acc_bits([self EXCEPT !.output = Append(@, word),
                                   !.bits = Zero32,
                                   !.need_bits = WordBits],
                      bits, nbits - self.need_bits)

\* encode_first leaving the symbol's offset out of the index.
encode_first_no_offset(self, sym) ==
    LET coded_nbits == self.symtab[sym + 1][1]
        nbits == coded_nbits \div (2^NbitsShift)
        idx == self.nstates \div (2^nbits)
    IN  [self EXCEPT !.state = self.origin[(idx % self.nstates) + 1]]

\* encode_first starting the accumulation over.
encode_first_reset(self, sym) ==
    LET coded_nbits == self.symtab[sym + 1][1]
        offset == self.symtab[sym + 1][2]
        nbits == coded_nbits \div (2^NbitsShift)
        idx == (self.nstates \div (2^nbits)) + offset
    IN  [self EXCEPT !.state = self.origin[(idx % self.nstates) + 1],
                     !.output = <<>>,
                     !.bits = Zero32,
                     !.need_bits = WordBits]

encode_first(self, sym) ==
    LET coded_nbits == self.symtab[sym + 1][1]
        offset == self.symtab[sym + 1][2]
        nbits == coded_nbits \div (2^NbitsShift)
        idx == (self.nstates \div (2^nbits)) + offset
    IN  [self EXCEPT !.state = self.origin[(idx % self.nstates) + 1]]

\* The number of bits encode_sym(sym) emits from the current state.
encode_nbits(self, sym) ==
    (self.state + self.symtab[sym + 1][1]) \div (2^NbitsShift)

\* The state encode_sym(sym) moves to from the current state.
encode_next(self, sym) ==
    LET offset == self.symtab[sym + 1][2]
        nbits == encode_nbits(self, sym)
        idx == ((self.state + self.nstates) \div (2^nbits)) + offset
    IN  self.origin[(idx % self.nstates) + 1]

\* encode_sym emitting the bits of the state it moves to.
encode_sym_emit_after(self, sym) ==
    LET nbits == encode_nbits(self, sym)
        next == encode_next(self, sym)
        acc == acc_bits(self, next, nbits)
    IN  [acc EXCEPT !.state = next]

encode_sym(self, sym) ==
    LET nbits == encode_nbits(self, sym)
        acc == acc_bits(self, self.state, nbits)
    IN  [acc EXCEPT !.state = encode_next(self, sym)]

(***************************************************************************)
(* io.rs: BitWriter.                                                       *)
(***************************************************************************)
BitWriterNew == [output |-> <<>>, bits |-> 0, have_bits |-> 0]

\* ((bits << have_bits) & 0xff) as u8
LowByte(bits, have_bits) == LowValue(Shl32(bits, have_bits), ByteBits)

\* a | b on u8
RECURSIVE OrNat(_, _)
OrNat(a, b) ==
    IF a = 0 THEN b
    ELSE IF b = 0 THEN a
    ELSE (IF (a % 2) + (b % 2) > 0 THEN 1 ELSE 0) + 2 * OrNat(a \div 2, b \div 2)

RECURSIVE write_bits(_, _, _)
\* self is the writer record, bits a u32 vector.
write_bits(self, bits, nbits) ==
    IF nbits = 0 THEN self
    ELSE LET acc == OrNat(self.bits, LowByte(bits, self.have_bits))
             need_bits == ByteBits - self.have_bits
         IN  IF nbits < need_bits
             THEN [self EXCEPT !.bits = acc, !.have_bits = @ + nbits]
             ELSE write_bits([self EXCEPT !.output = Append(@, acc),
                                          !.bits = 0,
                                          !.have_bits = 0],
                             Shr32(bits, need_bits), nbits - need_bits)

\* flush discarding the partial byte instead of writing it.
flush_drop(self) == [self EXCEPT !.bits = 0, !.have_bits = 0]

flush(self) ==
    IF self.have_bits > 0
    THEN [self EXCEPT !.output = Append(@, self.bits), !.bits = 0, !.have_bits = 0]
    ELSE self

(***************************************************************************)
(* tans.rs: Encoder::write.                                                *)
(***************************************************************************)
RECURSIVE WriteWords(_, _, _)
\* for i in (0..self.output.len()).rev(): write_bits(self.output[i], 32)
WriteWords(writer, output, i) ==
    IF i = 0 THEN writer
    ELSE WriteWords(write_bits(writer, output[i], WordBits), output, i - 1)

\* write() sending the full words before the partial word.
write_partial_last(self, writer) ==
    LET sbits == BitLen(self.nstates - 1)
        acc == acc_bits(self, self.state, sbits)
        w1 == WriteWords(writer, acc.output, Len(acc.output))
    IN  [encoder |-> acc,
         writer |-> IF acc.need_bits < WordBits
                    THEN write_bits(w1, Shr32(acc.bits, acc.need_bits),
                                    WordBits - acc.need_bits)
                    ELSE w1]

\* write() sending the accumulation register whole, low bits first.
write_whole_register(self, writer) ==
    LET sbits == BitLen(self.nstates - 1)
        acc == acc_bits(self, self.state, sbits)
        w1 == IF acc.need_bits < WordBits
              THEN write_bits(writer, acc.bits, WordBits)
              ELSE writer
    IN  [encoder |-> acc, writer |-> WriteWords(w1, acc.output, Len(acc.output))]

\* Returns the encoder and the writer after write().
write(self, writer) ==
    LET sbits == BitLen(self.nstates - 1)
        acc == acc_bits(self, self.state, sbits)
        w1 == IF acc.need_bits < WordBits
              THEN write_bits(writer, Shr32(acc.bits, acc.need_bits),
                              WordBits - acc.need_bits)
              ELSE writer
    IN  [encoder |-> acc, writer |-> WriteWords(w1, acc.output, Len(acc.output))]

(***************************************************************************)
(* io.rs: BitReader over a byte slice.                                     *)
(***************************************************************************)
BitReaderNew(input) == [input |-> input, have_bits |-> 0, bits |-> 0]

Min(a, b) == IF a < b THEN a ELSE b

RECURSIVE ReadLoop(_, _, _, _)
\* The loop of read_bits: bits is the u32 being assembled.
ReadLoop(self, bits, shift, need_bits) ==
    IF need_bits = 0 THEN [reader |-> self, ok |-> TRUE, bits |-> bits]
    ELSE IF self.have_bits = 0 /\ self.input = <<>>
    THEN [reader |-> self, ok |-> FALSE, bits |-> Zero32]   \* read_exact fails
    ELSE LET filled == IF self.have_bits = 0
                       THEN [input |-> Tail(self.input), have_bits |-> ByteBits,
                             bits |-> Head(self.input)]
                       ELSE self
             n == Min(need_bits, filled.have_bits)
             moved == Shl32(BV(filled.bits % (2^n)), shift)
         IN  ReadLoop([filled EXCEPT !.bits = @ \div (2^n), !.have_bits = @ - n],
                      Or32(bits, moved), shift + n, need_bits - n)

RECURSIVE ReadLoopZeroFill(_, _, _, _)
\* The loop of read_bits taking the bits past the end of the input as 0.
ReadLoopZeroFill(self, bits, shift, need_bits) ==
    IF need_bits = 0 THEN [reader |-> self, ok |-> TRUE, bits |-> bits]
    ELSE IF self.have_bits = 0 /\ self.input = <<>>
    THEN [reader |-> self, ok |-> TRUE, bits |-> bits]
    ELSE LET filled == IF self.have_bits = 0
                       THEN [input |-> Tail(self.input), have_bits |-> ByteBits,
                             bits |-> Head(self.input)]
                       ELSE self
             n == Min(need_bits, filled.have_bits)
             moved == Shl32(BV(filled.bits % (2^n)), shift)
         IN  ReadLoopZeroFill([filled EXCEPT !.bits = @ \div (2^n), !.have_bits = @ - n],
                              Or32(bits, moved), shift + n, need_bits - n)

\* read_bits that never fails.
read_bits_zero_fill(self, nbits) == ReadLoopZeroFill(self, Zero32, 0, nbits)

read_bits(self, nbits) == ReadLoop(self, Zero32, 0, nbits)

(***************************************************************************)
(* tans.rs: Decoder. state is the index of the current table entry.        *)
(***************************************************************************)
DecoderNew(table) == [table |-> table, state |-> 0]

\* self.state = &self.table[s]: indexing past the table panics.
Lookup(self, reader, s) ==
    IF s < Len(self.table)
    THEN [decoder |-> [self EXCEPT !.state = s], reader |-> reader,
          outcome |-> "ok", sym |-> self.table[s + 1][1]]
    ELSE [decoder |-> self, reader |-> reader, outcome |-> "panic", sym |-> ""]

\* decode_first reading bit_length(len) bits instead of bit_length(len - 1).
decode_first_wide(self, reader) ==
    LET sbits == BitLen(Len(self.table))
        r == read_bits(reader, sbits)
    IN  IF ~r.ok
        THEN [decoder |-> self, reader |-> r.reader, outcome |-> "err", sym |-> ""]
        ELSE Lookup(self, r.reader, Value(r.bits))

\* decode_sym adding the bits read to base instead of or-ing them.
decode_sym_add(self, reader) ==
    LET nbits == self.table[self.state + 1][2]
        base == self.table[self.state + 1][3]
        r == read_bits(reader, nbits)
    IN  IF ~r.ok
        THEN [decoder |-> self, reader |-> r.reader, outcome |-> "err", sym |-> ""]
        ELSE Lookup(self, r.reader, base + Value(r.bits))

\* Both return the decoder and the reader after the call, the outcome
\* ("ok", "err" for Err, "panic") and the symbol returned.
decode_first(self, reader) ==
    LET sbits == BitLen(Len(self.table) - 1)
        r == read_bits(reader, sbits)
    IN  IF ~r.ok
        THEN [decoder |-> self, reader |-> r.reader, outcome |-> "err", sym |-> ""]
        ELSE Lookup(self, r.reader, Value(r.bits))

decode_sym(self, reader) ==
    LET nbits == self.table[self.state + 1][2]
        base == self.table[self.state + 1][3]
        r == read_bits(reader, nbits)
    IN  IF ~r.ok
        THEN [decoder |-> self, reader |-> r.reader, outcome |-> "err", sym |-> ""]
        ELSE Lookup(self, r.reader, OrNat(base, Value(r.bits)))

(***************************************************************************)
(* io.rs: SliceToVecIO. input is the slice read, inpos the number of bytes *)
(* read, output the Vec written. Positions count from 0.                   *)
(***************************************************************************)
SliceToVecIONew(input) == [input |-> input, inpos |-> 0, output |-> <<>>]

\* self.input[pos]
lookback(self, pos) == self.input[pos + 1]

write_byte(self, b) == [self EXCEPT !.output = Append(@, b)]

\* Both return the io after the call and whether the call returned: ok is
\* FALSE when it panics (slice or index out of range, subtraction overflow).
copy_bytes(self, count) ==
    LET newpos == self.inpos + count
    IN  IF newpos > Len(self.input) THEN [io |-> self, ok |-> FALSE]
        ELSE [io |-> [self EXCEPT
                         !.output = @ \o SubSeq(self.input, self.inpos + 1, newpos),
                         !.inpos = newpos],
              ok |-> TRUE]

RECURSIVE RepeatLoop(_, _, _)
\* for _ in 0..count: push(output[outpos]); outpos += 1
RepeatLoop(self, outpos, count) ==
    IF count = 0 THEN [io |-> self, ok |-> TRUE]
    ELSE IF outpos >= Len(self.output) THEN [io |-> self, ok |-> FALSE]
    ELSE RepeatLoop([self EXCEPT !.output = Append(@, self.output[outpos + 1])],
                    outpos + 1, count - 1)

\* repeat_bytes starting where the format description puts the source:
\* dist + 3 bytes before the end of the output.
repeat_bytes_doc(self, count, dist, overflow_checks) ==
    IF Len(self.output) < dist + 3 THEN [io |-> self, ok |-> FALSE]
    ELSE RepeatLoop(self, Len(self.output) - 3 - dist, count)

\* repeat_bytes that stops at the end of the output it started from.
repeat_bytes_no_overlap(self, count, dist, overflow_checks) ==
    IF Len(self.output) < dist + 1 THEN [io |-> self, ok |-> FALSE]
    ELSE [io |-> [self EXCEPT !.output =
                     @ \o SubSeq(self.output, Len(self.output) - dist,
                                 Min(Len(self.output), Len(self.output) - dist + count - 1))],
          ok |-> TRUE]

\* output.len() - 1 - dist on usize: below 0 it panics in a build with
\* overflow checks and wraps to an index far past the output in a build
\* without, where the first push then panics.
repeat_bytes(self, count, dist, overflow_checks) ==
    IF Len(self.output) < dist + 1
    THEN IF overflow_checks \/ count > 0 THEN [io |-> self, ok |-> FALSE]
         ELSE [io |-> self, ok |-> TRUE]
    ELSE RepeatLoop(self, Len(self.output) - 1 - dist, count)

(***************************************************************************)
(* backref.rs: decode, one run at a time.                                  *)
(***************************************************************************)
\* The body of the loop of decode after next_byte returned Some(b).
DecodeRun(self, overflow_checks) ==
    LET b == self.input[self.inpos + 1]
        io1 == [self EXCEPT !.inpos = @ + 1]
    IN  IF b < RunFlag THEN copy_bytes(io1, b)
        ELSE IF io1.inpos + 2 > Len(io1.input)
        THEN [io |-> io1, ok |-> FALSE]      \* expect("end of input ...")
        ELSE LET lo == io1.input[io1.inpos + 1]
                 hi == io1.input[io1.inpos + 2]
                 dist == (hi * 256) + lo
             IN  repeat_bytes([io1 EXCEPT !.inpos = @ + 2], b % RunFlag, dist,
                              overflow_checks)

(***************************************************************************)
(* backref.rs: EncoderState and encode. pos maps the hash values seen to   *)
(* the position recorded for them; every other entry of the table is 0.    *)
(***************************************************************************)
RECURSIVE XorNat(_, _)
\* a ^ b
XorNat(a, b) ==
    IF a = 0 THEN b
    ELSE IF b = 0 THEN a
    ELSE ((a + b) % 2) + 2 * XorNat(a \div 2, b \div 2)

EncoderStateNew == [hash |-> 0, pos |-> <<>>, litlen |-> 0]

\* Returns the state after the call and the position recorded before.
update_hash(self, b, pos) ==
    LET hash == XorNat(self.hash * (2^HashShift), b) % (2^HashBits)
        prev == IF hash \in DOMAIN self.pos THEN self.pos[hash] ELSE 0
    IN  [state |-> [self EXCEPT
                       !.hash = hash,
                       !.pos = [h \in (DOMAIN self.pos) \cup {hash} |->
                                   IF h = hash THEN pos ELSE self.pos[h]]],
         prev |-> prev]

RECURSIVE FoundRepLoop(_, _, _, _)
\* The loop of found_rep; returns the state, the io and matlen.
FoundRepLoop(self, io, matlen, prevpos) ==
    IF io.inpos >= Len(io.input) THEN [state |-> self, io |-> io, matlen |-> matlen]
    ELSE LET b == io.input[io.inpos + 1]
             io1 == [io EXCEPT !.inpos = @ + 1]
             st1 == update_hash(self, b, io1.inpos - 1).state
         IN  IF b = lookback(io1, prevpos)
             THEN IF matlen + 1 = MaxRun
                  THEN [state |-> st1, io |-> io1, matlen |-> matlen + 1]
                  ELSE FoundRepLoop(st1, io1, matlen + 1, prevpos + 1)
             ELSE [state |-> [st1 EXCEPT !.litlen = 1], io |-> io1, matlen |-> matlen]

found_rep(self, io, pos, prev) ==
    LET litlen_before == IF self.litlen > 2 THEN self.litlen - 2 ELSE 0
        r == FoundRepLoop([self EXCEPT !.litlen = 0], io, MinMatch, prev)
    IN  [state |-> r.state, io |-> r.io, litlen |-> litlen_before,
         matlen |-> r.matlen, dist |-> pos - prev - 1]

RECURSIVE find_rep(_, _)
\* Returns the state, the io and the triple (litlen, matlen, dist).
find_rep(self, io) ==
    IF io.inpos >= Len(io.input)
    THEN [state |-> [self EXCEPT !.litlen = 0], io |-> io, litlen |-> self.litlen,
          matlen |-> 0, dist |-> 0]
    ELSE LET b == io.input[io.inpos + 1]
             io1 == [io EXCEPT !.inpos = @ + 1]
             pos == io1.inpos
             u == update_hash(self, b, pos)
             prev == u.prev
         IN  IF /\ prev >= MinMatch
                /\ (pos < Window \/ prev > pos - Window)
                /\ lookback(io1, prev - 3) = lookback(io1, pos - 3)
                /\ lookback(io1, prev - 2) = lookback(io1, pos - 2)
                /\ lookback(io1, prev - 1) = lookback(io1, pos - 1)
             THEN found_rep(u.state, io1, pos, prev)
             ELSE IF u.state.litlen + 1 = MaxRun
             THEN [state |-> [u.state EXCEPT !.litlen = 0], io |-> io1,
                   litlen |-> MaxRun, matlen |-> 0, dist |-> 0]
             ELSE find_rep([u.state EXCEPT !.litlen = @ + 1], io1)

\* write_byte(litlen), then the litlen bytes of the input from start on.
write_lit(io, litlen, start) ==
    [io EXCEPT !.output = (@ \o <<litlen>>) \o SubSeq(io.input, start + 1, start + litlen)]

\* One pass of the loop of encode; done when encode returns.
EncodeRun(self, io) ==
    LET pos == io.inpos - self.litlen
        r == find_rep(self, io)
        io1 == IF r.litlen > 0 THEN write_lit(r.io, r.litlen, pos) ELSE r.io
        io2 == IF r.matlen > 0
               THEN write_byte(write_byte(write_byte(io1, RunFlag + r.matlen),
                                          r.dist % 256),
                               (r.dist \div 256) % 256)
               ELSE io1
    IN  [state |-> r.state, io |-> io2, done |-> r.litlen = 0 /\ r.matlen = 0]

(***************************************************************************)
(* tans.rs tests: the hand-built decode table for freqs {a:2, b:5, c:1}.   *)
(***************************************************************************)
\* EXAMPLE_TABLE with the base of entry 1 off by one.
EXAMPLE_TABLE_shifted ==
    << <<"c", 3, 0>>,
       <<"b", 1, 5>>,
       <<"a", 2, 4>>,
       <<"b", 0, 1>>,
       <<"b", 1, 4>>,
       <<"a", 2, 0>>,
       <<"b", 0, 0>>,
       <<"b", 1, 2>> >>

EXAMPLE_TABLE ==
    << <<"c", 3, 0>>,
       <<"b", 1, 6>>,
       <<"a", 2, 4>>,
       <<"b", 0, 1>>,
       <<"b", 1, 4>>,
       <<"a", 2, 0>>,
       <<"b", 0, 0>>,
       <<"b", 1, 2>> >>

\* Symbol index i of the encoder is the character Alphabet[i + 1] of the
\* decode tables: freqs [2, 5, 1] are the frequencies of a, b, c.
Alphabet == <<"a", "b", "c", "d", "e">>

EXAMPLE_SBITS == 3
EXAMPLE_FREQS == <<2, 5, 1>>

(***************************************************************************)
(* The decode table of a distribution, derived from the encode tables:     *)
(* entry y belongs to the symbol whose origin slot holds y, base is the    *)
(* lowest state that encode_sym of that symbol takes to y and nbits the    *)
(* number of bits emitted there.                                           *)
(***************************************************************************)
RECURSIVE CumFreq(_, _)
\* freqs[0] + ... + freqs[s - 1]
CumFreq(freqs, s) == IF s = 0 THEN 0 ELSE freqs[s] + CumFreq(freqs, s - 1)

SymOfSlot(freqs, o) ==
    CHOOSE s \in 0..(Len(freqs) - 1) :
        CumFreq(freqs, s) <= o /\ o < CumFreq(freqs, s) + freqs[s + 1]

SetMin(S) == CHOOSE m \in S : \A x \in S : m <= x

DecodeTableOf(enc, freqs) ==
    [y1 \in 1..enc.nstates |->
        LET y == y1 - 1
            o == CHOOSE k \in 0..(enc.nstates - 1) : enc.origin[k + 1] = y
            s == SymOfSlot(freqs, o)
            X == {x \in 0..(enc.nstates - 1) :
                     encode_next([enc EXCEPT !.state = x], s) = y}
            base == SetMin(X)
        IN  <<Alphabet[s + 1], encode_nbits([enc EXCEPT !.state = base], s), base>>]

ValidDist(sbits, freqs) == SumSeq(freqs) = 2^sbits

\* Encoder::new panics when the origin loop indexes past the table.
EncoderNewPanics(sbits, freqs) ==
    LET nstates == 2^sbits
        stride == compute_stride(nstates)
    IN  OriginLoop(SumSeq(freqs), stride, nstates).panic

\* The decode table handed to the decoder of a distribution.
TableFor(sbits, freqs) ==
    IF ~ValidDist(sbits, freqs) THEN <<>>
    ELSE IF sbits = EXAMPLE_SBITS /\ freqs = EXAMPLE_FREQS THEN EXAMPLE_TABLE
    ELSE DecodeTableOf(EncoderNew(sbits, freqs), freqs)

SymChar(sym) == Alphabet[sym + 1]

(***************************************************************************)
(* brc.rs: the binary range coder. A u32 that can exceed 2^31 - 1 (low,    *)
(* code) is the record [hi, lo] of its bits 24..31 and 0..23; range stays  *)
(* below 2^24 and is a number.                                             *)
(***************************************************************************)
MAX_RANGE == 2^STATE_BITS - 1
NORM_SHIFT == STATE_BITS - 8
NORM_MASK == 2^NORM_SHIFT - 1

U32Of(n) == [hi |-> n \div 2^STATE_BITS, lo |-> n % 2^STATE_BITS]

\* x + n on u32, n <= 2^24: wraps past bit 31.
U32Add(x, n) ==
    LET lo == x.lo + n
    IN  [hi |-> (x.hi + lo \div 2^STATE_BITS) % 2^8, lo |-> lo % 2^STATE_BITS]

\* x + n does not fit a u32: a panic with overflow checks, else a wrap.
U32AddOverflows(x, n) == x.hi + (x.lo + n) \div 2^STATE_BITS >= 2^8

\* x - n on u32, for n <= x and n <= 2^24.
U32Sub(x, n) ==
    IF x.lo >= n THEN [x EXCEPT !.lo = @ - n]
    ELSE [hi |-> x.hi - 1, lo |-> x.lo + 2^STATE_BITS - n]

\* (x << 8) | b on u32, b a byte.
U32Shl8Or(x, b) ==
    [hi |-> x.lo \div 2^NORM_SHIFT, lo |-> (x.lo % 2^NORM_SHIFT) * 2^8 + b]

\* x > n, n below 2^24.
U32Gt(x, n) == x.hi > 0 \/ x.lo > n

\* (x >> NORM_SHIFT) as u8
U32NormByte(x) == x.lo \div 2^NORM_SHIFT

\* (range * p0) >> PROB_BITS. The product is below 2^32; it is computed
\* here from the high and the low byte part of range.
compute_threshold(range, p0) ==
    (range \div 2^PROB_BITS) * p0 + ((range % 2^PROB_BITS) * p0) \div 2^PROB_BITS

normalize_needed(low, range) == (low.lo % 2^NORM_SHIFT) + range <= NORM_MASK

BrcDecoderNew == [low |-> U32Of(0), range |-> 0, code |-> U32Of(0)]

decode_bit(self, p0) ==
    LET threshold == compute_threshold(self.range, p0)
        bit == U32Gt(self.code, threshold)
    IN  [bit |-> bit,
         panic |-> bit /\ U32AddOverflows(self.low, threshold + 1),
         dec |-> IF bit
                 THEN [code |-> U32Sub(self.code, threshold + 1),
                       range |-> self.range - (threshold + 1),
                       low |-> U32Add(self.low, threshold + 1)]
                 ELSE [self EXCEPT !.range = threshold]]

decoder_needs_normalize(self) == normalize_needed(self.low, self.range)

\* Decoder::normalize shifting zeros into range where the code shifts in
\* 0xff.
decoder_normalize_zero_fill(self, b) ==
    [range |-> self.range * 2^8,
     code |-> U32Shl8Or(self.code, b),
     low |-> U32Shl8Or(self.low, 0)]

\* range <= NORM_MASK where the callers normalize: range << 8 drops no bit.
decoder_normalize(self, b) ==
    [range |-> self.range * 2^8 + (2^8 - 1),
     code |-> U32Shl8Or(self.code, b),
     low |-> U32Shl8Or(self.low, 0)]

BrcEncoderNew == [low |-> U32Of(0), range |-> MAX_RANGE]

encode_bit(self, p0, bit) ==
    LET threshold == compute_threshold(self.range, p0)
    IN  [panic |-> bit /\ U32AddOverflows(self.low, threshold + 1),
         enc |-> IF bit
                 THEN [low |-> U32Add(self.low, threshold + 1),
                       range |-> self.range - (threshold + 1)]
                 ELSE [self EXCEPT !.range = threshold]]

encoder_needs_normalize(self) == normalize_needed(self.low, self.range)

\* Encoder::normalize shifting zeros into range where the code shifts in
\* 0xff.
encoder_normalize_zero_fill(self) ==
    [out |-> U32NormByte(self.low),
     enc |-> [range |-> self.range * 2^8,
              low |-> U32Shl8Or(self.low, 0)]]

encoder_normalize(self) ==
    [out |-> U32NormByte(self.low),
     enc |-> [range |-> self.range * 2^8 + (2^8 - 1),
              low |-> U32Shl8Or(self.low, 0)]]

encoder_flush(self) == U32NormByte(U32Add(self.low, self.range))

\* tests::english, encoder side: encode_bit, then one normalize if needed.
EncodeAndNormalize(self, out, p0, bit) ==
    LET e == encode_bit(self, p0, bit)
    IN  IF encoder_needs_normalize(e.enc)
        THEN [enc |-> encoder_normalize(e.enc).enc,
              out |-> Append(out, encoder_normalize(e.enc).out),
              panic |-> e.panic]
        ELSE [enc |-> e.enc, out |-> out, panic |-> e.panic]

RECURSIVE NormalizeLoop(_, _)
\* tests::english, decoder side: while decoder.needs_normalize() {
\* decoder.normalize(*input.next().unwrap_or(&0)) }
NormalizeLoop(self, input) ==
    IF ~decoder_needs_normalize(self) THEN [dec |-> self, input |-> input]
    ELSE IF input = <<>> THEN NormalizeLoop(decoder_normalize(self, 0), input)
    ELSE NormalizeLoop(decoder_normalize(self, Head(input)), Tail(input))

(***************************************************************************)
(* State.                                                                  *)
(***************************************************************************)
VARIABLES
    pc,         \* "enc", "written", "flushed", "dec", "panic" or "fn"
    sbits,      \* the arguments of Encoder::new
    freqs,
    table,      \* the decode table of the distribution
    encoder,    \* the fields of the tans Encoder
    msg,        \* the symbols passed to encode_first / encode_sym so far
    writer,     \* the fields of the BitWriter and the bytes it has output
    reader,     \* the fields of the BitReader and the input left to read
    decoder,    \* the fields of the tans Decoder
    decoded,    \* the symbols returned by decode_first / decode_sym so far
    ret,        \* outcome of the last decode call: "none", "ok", "err", "panic"
    fn_args,    \* arguments of the numeric helpers: sbits, freq, x
    fn_ret,     \* their results: coded_nbits, stride (-1: not called yet)
    io_fields,  \* the fields (bits, nbits) passed to BitWriter::write_bits so far
    io_reads,   \* the results of BitReader::read_bits so far
    plain,      \* the input given to backref::encode
    sio,        \* the SliceToVecIO of backref::encode, then of backref::decode
    estate,     \* the EncoderState of backref::encode
    rc_enc,     \* the fields of the brc Encoder
    rc_seq,     \* the pairs (p0, bit) passed to brc encode_bit so far
    rc_out,     \* the bytes the brc Encoder has output
    rc_dec,     \* the fields of the brc Decoder
    rc_in,      \* the bytes the brc Decoder has not read yet
    rc_bits,    \* the bits returned by brc decode_bit so far
    written     \* the messages already written with the tans Encoder

vars == <<pc, sbits, freqs, table, encoder, msg, writer, reader, decoder,
          decoded, ret, fn_args, fn_ret, io_fields, io_reads, plain, sio, estate,
          rc_enc, rc_seq, rc_out, rc_dec, rc_in, rc_bits, written>>

encVars == <<sbits, freqs, table, encoder, msg, writer>>
decVars == <<reader, decoder, decoded, ret>>
fnVars == <<fn_args, fn_ret>>
ioVars == <<io_fields, io_reads>>
brVars == <<plain, sio, estate>>
rcVars == <<rc_enc, rc_seq, rc_out, rc_dec, rc_in, rc_bits>>
reVars == <<written>>
auxVars == <<ioVars, brVars, rcVars, reVars>>

\* The variables of the components a specification does not run.
IoIdle ==
    /\ io_fields = <<>>
    /\ io_reads = <<>>

BrIdle ==
    /\ plain = <<>>
    /\ sio = SliceToVecIONew(<<>>)
    /\ estate = EncoderStateNew

RcIdle ==
    /\ rc_enc = BrcEncoderNew
    /\ rc_seq = <<>>
    /\ rc_out = <<>>
    /\ rc_dec = BrcDecoderNew
    /\ rc_in = <<>>
    /\ rc_bits = <<>>

ReIdle == written = <<>>

AuxIdle == IoIdle /\ BrIdle /\ RcIdle /\ ReIdle

(***************************************************************************)
(* The inputs explored.                                                    *)
(***************************************************************************)
\* Every call Encoder::new(sbits, freqs) with sbits <= MaxSbits, at most
\* MaxSyms symbols and no frequency above 2^sbits; the frequency sum may be
\* below, equal to or above 2^sbits.
SmallDists ==
    UNION {{<<sb, fr>> : fr \in UNION {[1..n -> 0..(2^sb)] : n \in 1..MaxSyms}} :
              sb \in 0..MaxSbits}

\* The example distribution of the tests.
EXAMPLE_DIST == <<EXAMPLE_SBITS, EXAMPLE_FREQS>>

\* A distribution whose first symbol emits 5 bits at a time, so that a short
\* message fills the 32-bit accumulation register.
LONG_DIST == <<6, <<2, 62>>>>

\* A distribution with a symbol of frequency 0 between two symbols that emit
\* bits.
ZERO_DIST == <<2, <<1, 0, 3>>>>

Dists == SmallDists \cup {EXAMPLE_DIST, LONG_DIST, ZERO_DIST}

MsgBound ==
    IF <<sbits, freqs>> = LONG_DIST THEN MaxLongMsg
    ELSE IF <<sbits, freqs>> \in {EXAMPLE_DIST, ZERO_DIST} THEN MaxMsg
    ELSE MaxShortMsg

\* On the example distribution the messages made of c (3 bits a step) with
\* at most one a (2 bits) are followed further, up to the length at which
\* the accumulation register is full.
RunMsg(m) ==
    /\ \A i \in 1..Len(m) : m[i] \in {0, 2}
    /\ Cardinality({i \in 1..Len(m) : m[i] = 0}) <= 1

RunExtends(sym) ==
    /\ <<sbits, freqs>> = EXAMPLE_DIST
    /\ Len(msg) < MaxRunMsg
    /\ RunMsg(Append(msg, sym))

NoArgs == [sbits |-> 0, freq |-> 0, x |-> 0]
NoRet == [coded_nbits |-> -1, stride |-> -1]
NoDecoder == DecoderNew(<<>>)

(***************************************************************************)
(* Init: the state after Encoder::new(sbits, freqs) and BitWriter::new.    *)
(***************************************************************************)
Init ==
    /\ \E d \in Dists :
          /\ sbits = d[1]
          /\ freqs = d[2]
          /\ encoder = EncoderNew(d[1], d[2])
          /\ table = TableFor(d[1], d[2])
          /\ pc = IF EncoderNewPanics(d[1], d[2]) THEN "panic" ELSE "enc"
    /\ msg = <<>>
    /\ writer = BitWriterNew
    /\ reader = BitReaderNew(<<>>)
    /\ decoder = NoDecoder
    /\ decoded = <<>>
    /\ ret = "none"
    /\ fn_args = NoArgs
    /\ fn_ret = NoRet
    /\ AuxIdle

Syms == 0..(Len(freqs) - 1)

EncodeFirst(sym) ==
    /\ pc = "enc"
    /\ msg = <<>>
    /\ encoder' = encode_first(encoder, sym)
    /\ msg' = <<sym>>
    /\ UNCHANGED <<pc, sbits, freqs, table, writer, decVars, fnVars, auxVars>>

EncodeSym(sym) ==
    /\ pc = "enc"
    /\ msg # <<>>
    /\ Len(msg) < MsgBound \/ RunExtends(sym)
    /\ encoder' = encode_sym(encoder, sym)
    /\ msg' = Append(msg, sym)
    /\ UNCHANGED <<pc, sbits, freqs, table, writer, decVars, fnVars, auxVars>>

Write ==
    /\ pc = "enc"
    /\ msg # <<>>
    /\ LET w == write(encoder, writer)
       IN  /\ encoder' = w.encoder
           /\ writer' = w.writer
    /\ pc' = "written"
    /\ UNCHANGED <<sbits, freqs, table, msg, decVars, fnVars, auxVars>>

Flush ==
    /\ pc = "written"
    /\ writer' = flush(writer)
    /\ pc' = "flushed"
    /\ UNCHANGED <<sbits, freqs, table, encoder, msg, decVars, fnVars, auxVars>>

\* A BitReader over the bytes written and a Decoder on the table of the
\* distribution, as the tests build them.
NewDecoder ==
    /\ pc = "flushed"
    /\ table # <<>>
    /\ reader' = BitReaderNew(writer.output)
    /\ decoder' = DecoderNew(table)
    /\ pc' = "dec"
    /\ UNCHANGED <<encVars, decoded, ret, fnVars, auxVars>>

DecodeLimit == IF msg # <<>> THEN Len(msg) ELSE MaxDecSteps

Decoded(d) ==
    /\ decoder' = d.decoder
    /\ reader' = d.reader
    /\ ret' = d.outcome
    /\ decoded' = IF d.outcome = "ok" THEN Append(decoded, d.sym) ELSE decoded
    /\ pc' = IF d.outcome = "panic" THEN "panic" ELSE pc

DecodeFirst ==
    /\ pc = "dec"
    /\ decoded = <<>>
    /\ ret = "none"
    /\ Decoded(decode_first(decoder, reader))
    /\ UNCHANGED <<encVars, fnVars, auxVars>>

DecodeSym ==
    /\ pc = "dec"
    /\ decoded # <<>>
    /\ Len(decoded) < DecodeLimit
    /\ Decoded(decode_sym(decoder, reader))
    /\ UNCHANGED <<encVars, fnVars, auxVars>>

Next ==
    \/ \E sym \in Syms : EncodeFirst(sym)
    \/ \E sym \in Syms : EncodeSym(sym)
    \/ Write
    \/ Flush
    \/ NewDecoder
    \/ DecodeFirst
    \/ DecodeSym

Spec == Init /\ [][Next]_vars

(***************************************************************************)
(* SpecDec: a Decoder on a well-formed table reading arbitrary input bytes. *)
(***************************************************************************)
ByteSamples == {0, 165, 255}

RECURSIVE SeqsUpTo(_, _)
SeqsUpTo(S, n) ==
    IF n = 0 THEN {<<>>}
    ELSE LET shorter == SeqsUpTo(S, n - 1)
         IN  shorter \cup {Append(q, b) : q \in shorter, b \in S}

\* The entries a table of 2^k entries may hold: nbits <= k and base < 2^k.
Entries(k) == {<<c, nb, base>> : c \in {"a"}, nb \in 0..k, base \in 0..((2^k) - 1)}

\* A decode step uses the current entry and the bits read, nothing else of
\* the table: the tables explored are those of 2^k equal entries, for every
\* entry, and EXAMPLE_TABLE with one entry replaced by any entry.
UniformTables ==
    UNION {{[i \in 1..(2^k) |-> e] : e \in Entries(k)} : k \in 0..MaxDecSbits}

PerturbedExample ==
    {[EXAMPLE_TABLE EXCEPT ![i] = e] :
        i \in 1..Len(EXAMPLE_TABLE), e \in Entries(BitLen(Len(EXAMPLE_TABLE) - 1))}

ArbTables == UniformTables \cup PerturbedExample

InitDec ==
    /\ pc = "dec"
    /\ sbits = 0
    /\ freqs = <<>>
    /\ table \in ArbTables \cup {EXAMPLE_TABLE}
    /\ encoder = NoEncoder
    /\ msg = <<>>
    /\ writer = BitWriterNew
    /\ \E input \in SeqsUpTo(ByteSamples, MaxInBytes) : reader = BitReaderNew(input)
    /\ decoder = DecoderNew(table)
    /\ decoded = <<>>
    /\ ret = "none"
    /\ fn_args = NoArgs
    /\ fn_ret = NoRet
    /\ AuxIdle

NextDec == DecodeFirst \/ DecodeSym

SpecDec == InitDec /\ [][NextDec]_vars

(***************************************************************************)
(* SpecFn: the numeric helpers applied to arguments drawn at Init: every   *)
(* (sbits, freq, x) up to MaxFnSbits, and the extreme frequencies and      *)
(* states of every larger sbits up to MaxStateBits.                        *)
(***************************************************************************)
FnArgs ==
    UNION {{[sbits |-> sb, freq |-> f, x |-> x] :
               f \in (IF sb <= MaxFnSbits THEN 1..(2^sb)
                      ELSE {1, 3, (2^sb) - 1, 2^sb}),
               x \in (IF sb <= MaxFnSbits THEN 0..((2^sb) - 1)
                      ELSE {0, 1, (2^sb) - 1})} :
              sb \in 0..MaxStateBits}

InitFn ==
    /\ pc = "fn"
    /\ sbits = 0
    /\ freqs = <<>>
    /\ table = <<>>
    /\ encoder = NoEncoder
    /\ msg = <<>>
    /\ writer = BitWriterNew
    /\ reader = BitReaderNew(<<>>)
    /\ decoder = NoDecoder
    /\ decoded = <<>>
    /\ ret = "none"
    /\ fn_args \in FnArgs
    /\ fn_ret = NoRet
    /\ AuxIdle

CallComputeCodedNbits ==
    /\ pc = "fn"
    /\ fn_ret.coded_nbits = -1
    /\ fn_ret' = [fn_ret EXCEPT
                    !.coded_nbits = compute_coded_nbits(fn_args.freq, fn_args.sbits)]
    /\ UNCHANGED <<pc, encVars, decVars, fn_args, auxVars>>

CallComputeStride ==
    /\ pc = "fn"
    /\ fn_ret.stride = -1
    /\ fn_ret' = [fn_ret EXCEPT !.stride = compute_stride(2^(fn_args.sbits))]
    /\ UNCHANGED <<pc, encVars, decVars, fn_args, auxVars>>

NextFn == CallComputeCodedNbits \/ CallComputeStride

SpecFn == InitFn /\ [][NextFn]_vars

(***************************************************************************)
(* SpecIO: fields written with BitWriter::write_bits, then flush(), then a *)
(* BitReader over the bytes produced reading the fields back and one byte  *)
(* more.                                                                   *)
(***************************************************************************)
AllOnes32 == [i \in BitPos |-> 1]

\* The u32 values written: 0, 5, 0x1a5 and 0xffffffff.
IoValues == {Zero32, BV(5), BV(421), AllOnes32}

\* The widths written: none, less than a byte, more than a byte, a word.
IoWidths == {0, 1, 5, 9, WordBits}

InitIO ==
    /\ pc = "io_write"
    /\ sbits = 0
    /\ freqs = <<>>
    /\ table = <<>>
    /\ encoder = NoEncoder
    /\ msg = <<>>
    /\ writer = BitWriterNew
    /\ reader = BitReaderNew(<<>>)
    /\ decoder = NoDecoder
    /\ decoded = <<>>
    /\ ret = "none"
    /\ fn_args = NoArgs
    /\ fn_ret = NoRet
    /\ AuxIdle

ioFixed == <<sbits, freqs, table, encoder, msg, decoder, decoded, ret, fnVars, brVars, rcVars,
            reVars>>

IoWriteBits(bits, nbits) ==
    /\ pc = "io_write"
    /\ Len(io_fields) < MaxFields
    /\ writer' = write_bits(writer, bits, nbits)
    /\ io_fields' = Append(io_fields, [bits |-> bits, nbits |-> nbits])
    /\ UNCHANGED <<pc, reader, io_reads, ioFixed>>

IoFlush ==
    /\ pc = "io_write"
    /\ writer' = flush(writer)
    /\ pc' = "io_flushed"
    /\ UNCHANGED <<reader, io_fields, io_reads, ioFixed>>

\* BitReader::new over the bytes the writer produced.
IoNewReader ==
    /\ pc = "io_flushed"
    /\ reader' = BitReaderNew(writer.output)
    /\ pc' = "io_read"
    /\ UNCHANGED <<writer, io_fields, io_reads, ioFixed>>

IoRead(nbits) ==
    LET r == read_bits(reader, nbits)
    IN  /\ reader' = r.reader
        /\ io_reads' = Append(io_reads, [ok |-> r.ok, bits |-> r.bits])

\* read_bits with the width of the next field written.
IoReadField ==
    /\ pc = "io_read"
    /\ Len(io_reads) < Len(io_fields)
    /\ IoRead(io_fields[Len(io_reads) + 1].nbits)
    /\ UNCHANGED <<pc, writer, io_fields, ioFixed>>

\* After the fields: read_bits(8), more than the padding can hold.
IoReadPast ==
    /\ pc = "io_read"
    /\ Len(io_reads) = Len(io_fields)
    /\ IoRead(ByteBits)
    /\ pc' = "io_done"
    /\ UNCHANGED <<writer, io_fields, ioFixed>>

NextIO ==
    \/ \E bits \in IoValues, nbits \in IoWidths : IoWriteBits(bits, nbits)
    \/ IoFlush
    \/ IoNewReader
    \/ IoReadField
    \/ IoReadPast

SpecIO == InitIO /\ [][NextIO]_vars

(***************************************************************************)
(* SpecBackref: backref::encode on an input, then backref::decode on the   *)
(* bytes it wrote. SpecBackrefDec: backref::decode on given streams.       *)
(***************************************************************************)
\* The byte values of the inputs: 'a' and 'b'.
BrBytes == {97, 98}

TansIdle ==
    /\ sbits = 0
    /\ freqs = <<>>
    /\ table = <<>>
    /\ encoder = NoEncoder
    /\ msg = <<>>
    /\ writer = BitWriterNew
    /\ reader = BitReaderNew(<<>>)
    /\ decoder = NoDecoder
    /\ decoded = <<>>
    /\ ret = "none"
    /\ fn_args = NoArgs
    /\ fn_ret = NoRet
    /\ ReIdle

tansVars == <<encVars, decVars, fnVars, reVars>>

InitBackref ==
    /\ pc = "br_enc"
    /\ plain \in SeqsUpTo(BrBytes, MaxPlain)
    /\ sio = SliceToVecIONew(plain)
    /\ estate = EncoderStateNew
    /\ TansIdle
    /\ IoIdle
    /\ RcIdle

\* One pass of the loop of encode.
BrEncodeRun ==
    /\ pc = "br_enc"
    /\ LET r == EncodeRun(estate, sio)
       IN  /\ estate' = r.state
           /\ sio' = r.io
           /\ pc' = IF r.done THEN "br_encoded" ELSE "br_enc"
    /\ UNCHANGED <<plain, tansVars, ioVars, rcVars>>

\* SliceToVecIO::new over the bytes encode wrote.
BrNewDecoder ==
    /\ pc = "br_encoded"
    /\ sio' = SliceToVecIONew(sio.output)
    /\ pc' = "br_dec"
    /\ UNCHANGED <<plain, estate, tansVars, ioVars, rcVars>>

\* One pass of the loop of decode: a literal run or a backreference.
BrDecodeRun ==
    /\ pc = "br_dec"
    /\ sio.inpos < Len(sio.input)
    /\ \E overflow_checks \in BOOLEAN :
          LET d == DecodeRun(sio, overflow_checks)
          IN  /\ sio' = d.io
              /\ pc' = IF d.ok THEN "br_dec" ELSE "panic"
    /\ UNCHANGED <<plain, estate, tansVars, ioVars, rcVars>>

\* next_byte returns None: decode returns.
BrDecodeReturn ==
    /\ pc = "br_dec"
    /\ sio.inpos >= Len(sio.input)
    /\ pc' = "br_done"
    /\ UNCHANGED <<plain, sio, estate, tansVars, ioVars, rcVars>>

NextBackref == BrEncodeRun \/ BrNewDecoder \/ BrDecodeRun \/ BrDecodeReturn

SpecBackref == InitBackref /\ [][NextBackref]_vars

\* The example of the format description: "1234", then 134, 1, 0.
DOC_STREAM == <<4, 49, 50, 51, 52, 134, 1, 0>>

\* The inputs of the tests decode_rep0, decode_rep2 and decode_rep3.
TEST_STREAMS ==
    { <<1, 97, 132, 0, 0>>,
      <<3, 97, 98, 99, 131, 2, 0>>,
      <<4, 97, 98, 99, 100, 131, 3, 0>> }

\* A literal run of 1..MaxLit bytes, then a backreference of any length up
\* to MaxCount with distance bytes lo <= MaxDist and hi in {0, 1}.
SmallStreams ==
    UNION {{(<<n>> \o lit) \o <<RunFlag + count, lo, hi>> :
               lit \in [1..n -> BrBytes], count \in 0..MaxCount,
               lo \in 0..MaxDist, hi \in {0, 1}} :
              n \in 1..MaxLit}

DecodeStreams == {DOC_STREAM} \cup TEST_STREAMS \cup SmallStreams

InitBackrefDec ==
    /\ pc = "br_dec"
    /\ plain = <<>>
    /\ \E stream \in DecodeStreams : sio = SliceToVecIONew(stream)
    /\ estate = EncoderStateNew
    /\ TansIdle
    /\ IoIdle
    /\ RcIdle

NextBackrefDec == BrDecodeRun \/ BrDecodeReturn

SpecBackrefDec == InitBackrefDec /\ [][NextBackrefDec]_vars

(***************************************************************************)
(* SpecTab: Encoder::new on every distribution explored, followed by       *)
(* messages of at most MaxShortMsg symbols. No decode table is built.      *)
(***************************************************************************)
InitTab ==
    /\ \E d \in Dists :
          /\ sbits = d[1]
          /\ freqs = d[2]
          /\ encoder = EncoderNew(d[1], d[2])
          /\ pc = IF EncoderNewPanics(d[1], d[2]) THEN "panic" ELSE "enc"
    /\ table = <<>>
    /\ msg = <<>>
    /\ writer = BitWriterNew
    /\ reader = BitReaderNew(<<>>)
    /\ decoder = NoDecoder
    /\ decoded = <<>>
    /\ ret = "none"
    /\ fn_args = NoArgs
    /\ fn_ret = NoRet
    /\ AuxIdle

NextTab ==
    \/ \E sym \in Syms : EncodeFirst(sym)
    \/ \E sym \in Syms : Len(msg) < MaxShortMsg /\ EncodeSym(sym)

SpecTab == InitTab /\ [][NextTab]_vars

(***************************************************************************)
(* SpecReuse: a message of at most MaxShortMsg symbols is encoded and      *)
(* written, then a second one is encoded on the same Encoder and written   *)
(* to a new BitWriter.                                                     *)
(***************************************************************************)
ReuseDists == {EXAMPLE_DIST, LONG_DIST, ZERO_DIST}

InitReuse == Init /\ <<sbits, freqs>> \in ReuseDists

\* The caller starts the next message: a new BitWriter, the same Encoder.
NextMessage ==
    /\ pc = "written"
    /\ written = <<>>
    /\ written' = Append(written, msg)
    /\ msg' = <<>>
    /\ writer' = BitWriterNew
    /\ pc' = "enc"
    /\ UNCHANGED <<sbits, freqs, table, encoder, decVars, fnVars, ioVars, brVars, rcVars>>

NextReuse ==
    \/ \E sym \in Syms : EncodeFirst(sym)
    \/ \E sym \in Syms : Len(msg) < MaxShortMsg /\ EncodeSym(sym)
    \/ Write
    \/ NextMessage

SpecReuse == InitReuse /\ [][NextReuse]_vars

(***************************************************************************)
(* SpecBrc: the protocol of tests::english on every sequence of up to      *)
(* MaxBits pairs (p0, bit): encode, flush, then decode with the same p0.   *)
(***************************************************************************)
\* The probabilities tried: the least, the middle and the largest p0.
P0s == {1, 128, 255}

InitBrc ==
    /\ pc = "rc_enc"
    /\ RcIdle
    /\ TansIdle
    /\ IoIdle
    /\ BrIdle

RcEncodeBit(p0, bit) ==
    /\ pc = "rc_enc"
    /\ Len(rc_seq) < MaxBits
    /\ LET r == EncodeAndNormalize(rc_enc, rc_out, p0, bit)
       IN  /\ rc_enc' = r.enc
           /\ rc_out' = r.out
           /\ \E overflow_checks \in BOOLEAN :
                 pc' = IF r.panic /\ overflow_checks THEN "panic" ELSE "rc_enc"
    /\ rc_seq' = Append(rc_seq, <<p0, bit>>)
    /\ UNCHANGED <<rc_dec, rc_in, rc_bits, tansVars, ioVars, brVars>>

\* output.push(encoder.flush()), then Decoder::new over the output.
RcFlush ==
    /\ pc = "rc_enc"
    /\ rc_out' = Append(rc_out, encoder_flush(rc_enc))
    /\ rc_in' = rc_out'
    /\ rc_dec' = BrcDecoderNew
    /\ pc' = "rc_dec"
    /\ UNCHANGED <<rc_enc, rc_seq, rc_bits, tansVars, ioVars, brVars>>

RcDecodeBit ==
    /\ pc = "rc_dec"
    /\ Len(rc_bits) < Len(rc_seq)
    /\ LET n == NormalizeLoop(rc_dec, rc_in)
           d == decode_bit(n.dec, rc_seq[Len(rc_bits) + 1][1])
       IN  /\ rc_in' = n.input
           /\ rc_dec' = d.dec
           /\ rc_bits' = Append(rc_bits, d.bit)
           /\ \E overflow_checks \in BOOLEAN :
                 pc' = IF d.panic /\ overflow_checks THEN "panic" ELSE "rc_dec"
    /\ UNCHANGED <<rc_enc, rc_seq, rc_out, tansVars, ioVars, brVars>>

NextBrc ==
    \/ \E p0 \in P0s, bit \in BOOLEAN : RcEncodeBit(p0, bit)
    \/ RcFlush
    \/ RcDecodeBit

SpecBrc == InitBrc /\ [][NextBrc]_vars

(***************************************************************************)
(* SpecBrcEnc: encode_bit with any p0 of P0sAll, each followed by one      *)
(* normalize when needed. SpecBrcDec: a Decoder fed any bytes, normalize   *)
(* called only while needed, decode_bit called at any time.                *)
(***************************************************************************)
\* P0s and the p0 of no probability at all.
P0sAll == P0s \cup {0}

NextBrcEnc == \E p0 \in P0sAll, bit \in BOOLEAN : RcEncodeBit(p0, bit)

SpecBrcEnc == InitBrc /\ [][NextBrcEnc]_vars

\* The input bytes tried: the least, one of the test decode_hi, the largest.
RcBytes == {0, 115, 255}

InitBrcDec ==
    /\ pc = "rc_dec"
    /\ RcIdle
    /\ TansIdle
    /\ IoIdle
    /\ BrIdle

RcNormalize(b) ==
    /\ pc = "rc_dec"
    /\ decoder_needs_normalize(rc_dec)
    /\ rc_dec' = decoder_normalize(rc_dec, b)
    /\ UNCHANGED <<pc, rc_enc, rc_seq, rc_out, rc_in, rc_bits, tansVars, ioVars, brVars>>

RcDecodeAny(p0) ==
    /\ pc = "rc_dec"
    /\ Len(rc_bits) < MaxBits
    /\ LET d == decode_bit(rc_dec, p0)
       IN  /\ rc_dec' = d.dec
           /\ rc_bits' = Append(rc_bits, d.bit)
           /\ \E overflow_checks \in BOOLEAN :
                 pc' = IF d.panic /\ overflow_checks THEN "panic" ELSE "rc_dec"
    /\ UNCHANGED <<rc_enc, rc_seq, rc_out, rc_in, tansVars, ioVars, brVars>>

NextBrcDec ==
    \/ \E b \in RcBytes : RcNormalize(b)
    \/ \E p0 \in P0sAll : RcDecodeAny(p0)

SpecBrcDec == InitBrcDec /\ [][NextBrcDec]_vars

(***************************************************************************)
(* Properties.                                                             *)
(***************************************************************************)
MsgChars == [i \in 1..Len(msg) |-> SymChar(msg[i])]

\* Every symbol of the message has a nonzero frequency.
MsgEncodable == \A i \in 1..Len(msg) : freqs[msg[i] + 1] > 0

IsExample == sbits = EXAMPLE_SBITS /\ freqs = EXAMPLE_FREQS

\* C1: decoding the bytes written for a message of symbols with nonzero
\* frequency never fails and returns the symbols of the message in the
\* order they were encoded.
C1_RoundTripSameOrder ==
    (pc = "dec" /\ MsgEncodable) =>
        /\ ret # "err"
        /\ \A i \in 1..Len(decoded) : decoded[i] = MsgChars[i]

\* C2: on Encoder::new(3, [2,5,1]) the calls encode_first(2), encode_sym(0),
\* encode_sym(1), encode_sym(1), encode_sym(0) leave the state at 0, 5, 4,
\* 4, 2, and write() followed by flush() outputs the bytes 0x42, 0x00.
C2_EncodeScenario ==
    IsExample =>
        /\ msg = <<2>> => encoder.state = 0
        /\ msg = <<2, 0>> => encoder.state = 5
        /\ msg = <<2, 0, 1>> => encoder.state = 4
        /\ msg = <<2, 0, 1, 1>> => encoder.state = 4
        /\ msg = <<2, 0, 1, 1, 0>> => encoder.state = 2
        /\ (msg = <<2, 0, 1, 1, 0>> /\ pc \in {"flushed", "dec"}) =>
               writer.output = <<66, 0>>

C2_Witness ==
    IsExample /\ msg = <<2, 0, 1, 1, 0>> /\ pc = "flushed" /\ Len(writer.output) = 2

\* The bytes 0x42, 0x00 have been decoded against EXAMPLE_TABLE by one
\* decode_first and four decode_sym calls.
DecodedExampleBytes ==
    /\ pc = "dec"
    /\ decoder.table = EXAMPLE_TABLE
    /\ writer.output = <<66, 0>>
    /\ Len(decoded) = 5

\* C3 as claimed: decoding 0x42, 0x00 against EXAMPLE_TABLE returns
\* c, a, b, b, a.
C3_DecodesCABBA == DecodedExampleBytes => decoded = <<"c", "a", "b", "b", "a">>

\* C3 as amended: decoding 0x42, 0x00 against EXAMPLE_TABLE returns
\* a, b, b, a, c: the symbols encoded, last encoded first.
C3_DecodesABBAC == DecodedExampleBytes => decoded = <<"a", "b", "b", "a", "c">>

C3_Witness == DecodedExampleBytes /\ msg = <<2, 0, 1, 1, 0>> /\ ret = "ok"

\* C4: Encoder::new on frequencies that do not sum to 1 << sbits reports an
\* InvalidDistribution error: it neither returns an encoder nor panics.
C4_InvalidDistributionRejected ==
    ~ValidDist(sbits, freqs) => pc = "invalid_distribution"

\* C5: (x + compute_coded_nbits(f, sbits)) >> 24 is n below the threshold
\* and n + 1 from the threshold on, where n = sbits - bit_length(f - 1) =
\* floor(log2(L / f)) and threshold = 2 * (f << n) - L.
C5_BitCountSelector ==
    fn_ret.coded_nbits # -1 =>
        LET L == 2^(fn_args.sbits)
            f == fn_args.freq
            x == fn_args.x
            n == fn_args.sbits - BitLen(f - 1)
            threshold == 2 * (f * (2^n)) - L
            v == (x + fn_ret.coded_nbits) \div (2^NbitsShift)
        IN  /\ n >= 0
            /\ f * (2^n) <= L
            /\ L < f * (2^(n + 1))
            /\ x < threshold => v = n
            /\ x >= threshold => v = n + 1

\* A frequency with both regimes (f = 3 of 8: 1 bit below state 4, 2 bits
\* from state 4 on), applied to a state in the upper one.
C5_Witness ==
    /\ fn_args = [sbits |-> 3, freq |-> 3, x |-> 4]
    /\ fn_ret.coded_nbits # -1
    /\ (fn_args.x + fn_ret.coded_nbits) \div (2^NbitsShift) = 2

RECURSIVE GCD(_, _)
GCD(a, b) == IF b = 0 THEN a ELSE GCD(b, a % b)

\* C6: gcd(compute_stride(L), L) = 1 for every L = 2^sbits, sbits in 0..24.
C6_StrideCoprime ==
    fn_ret.stride # -1 => GCD(fn_ret.stride, 2^(fn_args.sbits)) = 1

C6_Witness ==
    /\ fn_args.sbits = MaxStateBits
    /\ fn_ret.stride = 8388608 + 2097152 + 3

\* The entries of table t with symbol c whose range [base, base + 2^nbits)
\* holds v.
Covering(t, c, v) ==
    {i \in 1..Len(t) : /\ t[i][1] = c
                        /\ t[i][3] <= v
                        /\ v < t[i][3] + 2^(t[i][2])}

TableSyms(t) == {t[i][1] : i \in 1..Len(t)}

\* The decoder has just been given the decode table of the distribution.
FreshDecoder == pc = "dec" /\ msg # <<>> /\ decoded = <<>> /\ ret = "none"

\* C7 as claimed: every value of [0, L) lies in the range of exactly one
\* entry of the decode table, counted across all entries.
C7_CoverageAcrossTable ==
    FreshDecoder =>
        \A v \in 0..(Len(decoder.table) - 1) :
            Cardinality(UNION {Covering(decoder.table, c, v) :
                                  c \in TableSyms(decoder.table)}) = 1

\* C7 as amended: for every symbol with a nonzero frequency, every value of
\* [0, L) lies in the range of exactly one of the entries of that symbol.
C7_CoveragePerSymbol ==
    FreshDecoder =>
        \A s \in Syms : freqs[s + 1] > 0 =>
            \A v \in 0..(Len(decoder.table) - 1) :
                Cardinality(Covering(decoder.table, SymChar(s), v)) = 1

C7_Witness == FreshDecoder /\ IsExample /\ decoder.table = EXAMPLE_TABLE

\* A table of power-of-two length L = 2^k with base < L and nbits <= k in
\* every entry.
TableWellFormed(t) ==
    /\ Len(t) >= 1
    /\ 2^BitLen(Len(t) - 1) = Len(t)
    /\ \A i \in 1..Len(t) : t[i][3] < Len(t) /\ t[i][2] <= BitLen(Len(t) - 1)

\* C8: on a well-formed table, whatever the input bits, no decode call
\* indexes outside the table: the decode index stays in [0, L).
C8_DecoderStaysInTable ==
    TableWellFormed(decoder.table) =>
        /\ ret # "panic"
        /\ pc # "panic"
        /\ decoder.state \in 0..(Len(decoder.table) - 1)

\* Three symbols decoded from arbitrary input that is now used up, ending
\* in the last entry of the table.
C8_Witness ==
    /\ pc = "dec"
    /\ msg = <<>>
    /\ Len(decoder.table) >= 2
    /\ Len(decoded) >= 3
    /\ ret = "ok"
    /\ decoder.state = Len(decoder.table) - 1
    /\ reader.input = <<>>

(***************************************************************************)
(* The bit stream a BitReader consumes: the bits of each byte, least       *)
(* significant first.                                                      *)
(***************************************************************************)
\* The n low bits of the u32 w in the order a BitReader returns them.
LsbBits(w, n) == [i \in 1..n |-> w[i - 1]]

RECURSIVE BytesBits(_)
BytesBits(bytes) ==
    IF bytes = <<>> THEN <<>>
    ELSE LsbBits(BV(Head(bytes)), ByteBits) \o BytesBits(Tail(bytes))

\* Everything written so far, the bits still buffered in the writer included.
WrittenBits(w) == BytesBits(w.output) \o LsbBits(BV(w.bits), w.have_bits)

RECURSIVE WordsBitsRev(_)
\* The words of ws, last produced first.
WordsBitsRev(ws) ==
    IF ws = <<>> THEN <<>>
    ELSE LsbBits(ws[Len(ws)], WordBits) \o WordsBitsRev(SubSeq(ws, 1, Len(ws) - 1))

WriteStep == pc = "enc" /\ pc' = "written"

\* At the call of write(): the numeral, the pending bits of the partial
\* accumulation word and the full words, each as a BitReader reads it.
NumeralBits == LsbBits(BV(encoder.state), sbits)
PartialBits ==
    LsbBits(Shr32(encoder.bits, encoder.need_bits), WordBits - encoder.need_bits)
FullWordsBits == WordsBitsRev(encoder.output)

\* C9 as claimed: write() produces the sbits-wide final numeral, then the
\* full 32-bit words in reverse order of production, and last the final
\* partial word.
C9_LayoutPartialLast ==
    [][WriteStep => WrittenBits(writer') = NumeralBits \o FullWordsBits \o PartialBits]_vars

\* C9 as amended: write() produces the sbits-wide final numeral, then the
\* pending bits of the final partial word, and last the full 32-bit words
\* in reverse order of production.
C9_LayoutPartialFirst ==
    [][WriteStep => WrittenBits(writer') = NumeralBits \o PartialBits \o FullWordsBits]_vars

\* write() was called with at least one full word and a nonempty partial
\* word accumulated.
C9_Witness ==
    /\ pc = "written"
    /\ WordBits * Len(encoder.output) + (WordBits - encoder.need_bits) - sbits > WordBits
    /\ (WordBits - encoder.need_bits - sbits) % WordBits # 0

\* The symbol that owns state y: the one whose origin slots hold y.
Owner(y) ==
    SymOfSlot(freqs, CHOOSE k \in 0..(encoder.nstates - 1) : encoder.origin[k + 1] = y)

\* C10 as claimed: no call encode_first(s) / encode_sym(s) with freqs[s] = 0
\* completes normally.
C10_ZeroFrequencyFails ==
    (pc = "enc" /\ ValidDist(sbits, freqs)) => MsgEncodable

\* The step is a call encode_first(s) / encode_sym(s) with freqs[s] = 0 on
\* the encoder of a distribution that sums to L.
ZeroFrequencyStep ==
    /\ pc = "enc"
    /\ ValidDist(sbits, freqs)
    /\ msg' # msg
    /\ freqs[msg'[Len(msg')] + 1] = 0

\* C10 as amended: the tables are built with coded_nbits = 0 for s, and
\* encode_first(s) / encode_sym(s) complete normally: they emit no bit and
\* leave the encoder in a state owned by a symbol with nonzero frequency,
\* which is not s.
C10_ZeroFrequencyCompletes ==
    [][ZeroFrequencyStep =>
          LET s == msg'[Len(msg')]
          IN  /\ pc' = "enc"
              /\ encoder.symtab[s + 1][1] = 0
              /\ encoder'.output = encoder.output
              /\ encoder'.bits = encoder.bits
              /\ encoder'.need_bits = encoder.need_bits
              /\ encoder'.state \in 0..(encoder.nstates - 1)
              /\ Owner(encoder'.state) # s
              /\ freqs[Owner(encoder'.state) + 1] > 0]_vars

\* encode_sym of a zero-frequency symbol has completed after another
\* symbol had emitted bits.
C10_Witness ==
    /\ pc = "enc"
    /\ ValidDist(sbits, freqs)
    /\ Len(msg) >= 3
    /\ freqs[msg[Len(msg)] + 1] = 0
    /\ encoder.need_bits < WordBits

(***************************************************************************)
(* Truncated input.                                                        *)
(***************************************************************************)
\* The bits the reader can still deliver.
BitsLeft(r) == r.have_bits + ByteBits * Len(r.input)

\* The bits the next decode call asks for: sbits for decode_first, the
\* nbits of the current entry for decode_sym.
NeededBits ==
    IF decoded = <<>> /\ ret = "none"
    THEN BitLen(Len(decoder.table) - 1)
    ELSE decoder.table[decoder.state + 1][2]

\* C11: a decode call made when the bit source has fewer bits left than
\* the call needs returns Err and leaves the decoder's current table entry
\* as it was before the call.
C11_TruncatedInputSurfaced ==
    [][(pc = "dec" /\ BitsLeft(reader) < NeededBits) =>
          /\ ret' = "err"
          /\ pc' = "dec"
          /\ decoder' = decoder
          /\ decoded' = decoded]_vars

\* decode_sym has returned Err on an input that ran out after two symbols,
\* with the decoder still on the entry it had reached.
C11_Witness ==
    /\ pc = "dec"
    /\ msg = <<>>
    /\ ret = "err"
    /\ Len(decoded) = 2
    /\ decoder.state # 0
    /\ BitsLeft(reader) < decoder.table[decoder.state + 1][2]

(***************************************************************************)
(* Single-symbol distributions.                                            *)
(***************************************************************************)
\* One symbol has frequency L = 2^sbits, every other symbol frequency 0,
\* and the message so far repeats that symbol.
SingleSymbolMsg ==
    /\ ValidDist(sbits, freqs)
    /\ \E s \in Syms : /\ freqs[s + 1] = 2^sbits
                        /\ \A i \in 1..Len(msg) : msg[i] = s

\* C12: with a single symbol of frequency L, encode_sym of that symbol
\* emits 0 bits from every state, and write() writes exactly sbits bits,
\* whatever the length of the message.
C12_SingleSymbolStability ==
    SingleSymbolMsg =>
        /\ \A s \in Syms : freqs[s + 1] = 2^sbits =>
               \A x \in 0..(encoder.nstates - 1) :
                   encode_nbits([encoder EXCEPT !.state = x], s) = 0
        /\ pc = "enc" => encoder.output = <<>> /\ encoder.need_bits = WordBits
        /\ pc = "written" => Len(WrittenBits(writer)) = sbits
        /\ pc \in {"flushed", "dec"} =>
               Len(writer.output) = (sbits + ByteBits - 1) \div ByteBits

\* A message of more than one symbol has been written on a four-state
\* table whose second symbol has frequency 4.
C12_Witness ==
    /\ SingleSymbolMsg
    /\ sbits = 2
    /\ freqs = <<0, 4>>
    /\ Len(msg) >= 2
    /\ pc = "written"
    /\ Len(WrittenBits(writer)) = 2

(***************************************************************************)
(* The accumulated bit string of the encoder: the words pushed to output   *)
(* and the filled part of the accumulation register, each most significant *)
(* bit first.                                                              *)
(***************************************************************************)
\* Bits hi, hi - 1, ..., hi - n + 1 of the u32 w.
MsbBits(w, hi, n) == [i \in 1..n |-> w[hi - i + 1]]

RECURSIVE WordsBits(_)
WordsBits(ws) ==
    IF ws = <<>> THEN <<>>
    ELSE MsbBits(Head(ws), WordBits - 1, WordBits) \o WordsBits(Tail(ws))

AccumulatedBits(e) ==
    WordsBits(e.output) \o MsbBits(e.bits, WordBits - 1, WordBits - e.need_bits)

EncodeSymStep == pc = "enc" /\ msg # <<>> /\ msg' # msg

\* C19: encode_sym appends the nbits low bits of the current state, most
\* significant first, to the accumulated bit string, at every fill level of
\* the register: no bit accumulated earlier changes, and a word is pushed
\* exactly when it becomes full.
C19_EmitsLowBitsOfState ==
    [][EncodeSymStep =>
          LET nbits == encode_nbits(encoder, msg'[Len(msg')])
          IN  /\ AccumulatedBits(encoder') =
                     AccumulatedBits(encoder) \o MsbBits(BV(encoder.state), nbits - 1, nbits)
              /\ encoder'.need_bits \in 1..WordBits
              /\ Len(encoder'.output) =
                     (Len(AccumulatedBits(encoder)) + nbits) \div WordBits]_vars

(***************************************************************************)
(* Decode order.                                                           *)
(***************************************************************************)
\* The bits accumulated by the encode calls and write(), numeral included.
TotalBits == WordBits * Len(encoder.output) + (WordBits - encoder.need_bits)

\* C20: on the example distribution, when the encoding of a non-empty
\* message emits at most 32 bits in all, decoding the bytes written returns
\* the symbols last encoded first: decode_first returns the last symbol
\* encoded and the k-th decode_sym the symbol encoded k steps before it.
C20_LastInFirstOut ==
    (IsExample /\ pc = "dec" /\ TotalBits <= WordBits) =>
        /\ ret \in {"none", "ok"}
        /\ \A i \in 1..Len(decoded) : decoded[i] = MsgChars[Len(msg) + 1 - i]

\* A message whose encoding fills the 32-bit register exactly has been
\* decoded to its last symbol.
C20_Witness ==
    /\ IsExample
    /\ pc = "dec"
    /\ TotalBits = WordBits
    /\ Len(msg) = MaxRunMsg
    /\ Len(decoded) = Len(msg)
    /\ ret = "ok"

(***************************************************************************)
(* Bit I/O.                                                                *)
(***************************************************************************)
\* value & ((1 << n) - 1)
Mask32(w, n) == [i \in BitPos |-> IF i < n THEN w[i] ELSE 0]

RECURSIVE WriteMasked(_, _)
\* The writer after write_bits of the fields fs, each masked to its width.
WriteMasked(self, fs) ==
    IF fs = <<>> THEN self
    ELSE WriteMasked(write_bits(self, Mask32(Head(fs).bits, Head(fs).nbits),
                                Head(fs).nbits),
                     Tail(fs))

\* C13: write_bits(value, n) buffers only the n low bits of value: the
\* bytes produced by the write_bits calls and flush() are those produced
\* when every value is masked to its n low bits first.
C13_WritesOnlyLowBits ==
    pc = "io_flushed" =>
        writer.output = flush(WriteMasked(BitWriterNew, io_fields)).output

FieldClean(f) == \A i \in BitPos : i >= f.nbits => f.bits[i] = 0

FieldsClean == \A i \in 1..Len(io_fields) : FieldClean(io_fields[i])

RECURSIVE FieldsBits(_)
\* The bits of the fields in the order written, low bit of each first.
FieldsBits(fs) ==
    IF fs = <<>> THEN <<>>
    ELSE LsbBits(Head(fs).bits, Head(fs).nbits) \o FieldsBits(Tail(fs))

\* C14: for fields (v, n) with v < 2^n, write_bits in order then flush()
\* produces ceil(sum n / 8) bytes whose bits, least significant bit of the
\* earliest byte first, are the bits of the fields in the order written; a
\* BitReader over them returns each v from read_bits(n) in the same order,
\* and a read past the last byte returns Err.
C14_BitIoRoundTrip ==
    FieldsClean =>
        LET total == Len(FieldsBits(io_fields))
        IN  /\ pc \in {"io_flushed", "io_read", "io_done"} =>
                   /\ Len(writer.output) = (total + ByteBits - 1) \div ByteBits
                   /\ SubSeq(BytesBits(writer.output), 1, total) = FieldsBits(io_fields)
            /\ \A i \in 1..Len(io_reads) :
                   IF i <= Len(io_fields)
                   THEN io_reads[i].ok /\ io_reads[i].bits = io_fields[i].bits
                   ELSE ~io_reads[i].ok

\* A 9-bit field and a 32-bit field, 41 bits in 6 bytes, have been read
\* back and the read past the end has been made.
C14_Witness ==
    /\ pc = "io_done"
    /\ io_fields = <<[bits |-> BV(421), nbits |-> 9], [bits |-> AllOnes32, nbits |-> WordBits]>>
    /\ Len(writer.output) = 6
    /\ Len(io_reads) = 3
    /\ ~io_reads[3].ok

(***************************************************************************)
(* Backreference coder.                                                    *)
(***************************************************************************)
\* C15: for every input x, backref::decode applied to the bytes written by
\* backref::encode(x) returns normally with output x.
C15_BackrefRoundTrip ==
    /\ pc # "panic"
    /\ pc = "br_done" => sio.output = plain

\* The next pass of decode reads a complete backreference.
BackrefRun ==
    /\ pc = "br_dec"
    /\ sio.inpos + 3 <= Len(sio.input)
    /\ sio.input[sio.inpos + 1] >= RunFlag

\* Its length, 0x80 + len being the lead byte, and its 16-bit distance.
RunLen == sio.input[sio.inpos + 1] - RunFlag
RunDist == sio.input[sio.inpos + 2] + 256 * sio.input[sio.inpos + 3]

\* len bytes copied from the output out starting back bytes before its
\* end, the copy running into its own output when len > back.
CopyFrom(out, back, len) ==
    [i \in 1..len |-> out[Len(out) - back + ((i - 1) % back) + 1]]

C18_RepeatBytes ==
    [][(BackrefRun /\ RunDist + 1 <= Len(sio.output)) =>
          LET n == Len(sio.output)
              out == sio'.output
          IN  /\ pc' = "br_dec"
              /\ Len(out) = n + RunLen
              /\ SubSeq(out, 1, n) = sio.output
              /\ \A i \in (n + 1)..Len(out) : out[i] = out[i - (RunDist + 1)]]_vars

\* The test decode_rep0: 'a', then count 4 at distance 0, gives "aaaaa".
C18_Witness ==
    /\ pc = "br_done"
    /\ sio.input = <<1, 97, 132, 0, 0>>
    /\ sio.output = <<97, 97, 97, 97, 97>>

(***************************************************************************)
(* Range coder.                                                            *)
(***************************************************************************)
\* C16: for every sequence of pairs (p0, bit), encoding with one normalize
\* a bit and a final flush byte, then decoding with the same p0 sequence,
\* returns the bits that were encoded.
C16_RangeCoderRoundTrip ==
    /\ pc \in {"rc_enc", "rc_dec"}
    /\ \A i \in 1..Len(rc_bits) : rc_bits[i] = rc_seq[i][2]

(***************************************************************************)
(* The encoder's tables.                                                   *)
(***************************************************************************)
\* The encoder in state x.
AtState(x) == [encoder EXCEPT !.state = x]

\* The origin slots origin[c_s .. c_s + f) of symbol s.
SlotsOf(s) ==
    {encoder.origin[k + 1] :
        k \in CumFreq(freqs, s)..(CumFreq(freqs, s) + freqs[s + 1] - 1)}

\* The states from which encode_sym(s) moves to y.
SourcesOf(s, y) ==
    {x \in 0..(encoder.nstates - 1) : encode_next(AtState(x), s) = y}

\* C21: for a distribution with sum 2^sbits and a symbol s of frequency
\* f > 0, encode_sym(s) maps the states [0, L) onto exactly the f states
\* origin[c_s .. c_s + f); the states mapped to one of them form an interval
\* [base, base + 2^nbits), nbits being the bits emitted from each of them
\* and base a multiple of 2^nbits.
C21_StatePartition ==
    (pc # "panic" /\ ValidDist(sbits, freqs)) =>
        \A s \in Syms : freqs[s + 1] > 0 =>
            /\ Cardinality(SlotsOf(s)) = freqs[s + 1]
            /\ {encode_next(AtState(x), s) : x \in 0..(encoder.nstates - 1)} = SlotsOf(s)
            /\ \A y \in SlotsOf(s) :
                  LET X == SourcesOf(s, y)
                      base == SetMin(X)
                      nbits == encode_nbits(AtState(base), s)
                  IN  /\ X = base..(base + 2^nbits - 1)
                      /\ \A x \in X : encode_nbits(AtState(x), s) = nbits
                      /\ base % (2^nbits) = 0

\* A symbol emitting no bit from some states and 1 bit from others has been
\* encoded on a distribution with sum 2^sbits.
C21_Witness ==
    /\ pc = "enc"
    /\ ValidDist(sbits, freqs)
    /\ Len(msg) >= 2
    /\ \E s \in Syms :
          /\ s = msg[Len(msg)]
          /\ freqs[s + 1] > 0
          /\ {encode_nbits(AtState(x), s) : x \in 0..(encoder.nstates - 1)} = {0, 1}

(***************************************************************************)
(* tans.rs tests: the slow reference search.                               *)
(***************************************************************************)
\* The first entry of table that holds sym and covers successor, from 0;
\* -1 where the search panics.
tans_prev_state(successor, sym, t) ==
    LET I == {i \in 1..Len(t) :
                 /\ t[i][1] = sym
                 /\ t[i][3] <= successor
                 /\ t[i][3] + 2^(t[i][2]) > successor}
    IN  IF I = {} THEN -1 ELSE SetMin(I) - 1

\* C22: on the encoder of Encoder::new(3, [2,5,1]), from every state x and
\* for every symbol s, encode_sym(s) moves to the state y that
\* tans_prev_state(x, s, EXAMPLE_TABLE) finds, and appends to the
\* accumulated bits the nbits bits of x - base, (s, nbits, base) being
\* entry y of the table; encode_first(s) moves to
\* tans_prev_state(0, s, EXAMPLE_TABLE).
C22_AgreesWithSlowSearch ==
    (IsExample /\ pc = "enc") =>
        \A s \in Syms :
            /\ encode_first(encoder, s).state =
                   tans_prev_state(0, SymChar(s), EXAMPLE_TABLE)
            /\ \A x \in 0..(encoder.nstates - 1) :
                  LET y == tans_prev_state(x, SymChar(s), EXAMPLE_TABLE)
                      e == encode_sym(AtState(x), s)
                  IN  /\ y >= 0
                      /\ e.state = y
                      /\ EXAMPLE_TABLE[y + 1][3] <= x
                      /\ AccumulatedBits(e) =
                             AccumulatedBits(encoder) \o
                                 MsbBits(BV(x - EXAMPLE_TABLE[y + 1][3]),
                                         EXAMPLE_TABLE[y + 1][2] - 1,
                                         EXAMPLE_TABLE[y + 1][2])

\* The first steps of the test encode_abbac: encode_first(c) has set state
\* 0 and encode_sym(a) has moved to state 5 on 2 bits.
C22_Witness ==
    /\ IsExample
    /\ pc = "enc"
    /\ msg = <<2, 0>>
    /\ encoder.state = 5
    /\ AccumulatedBits(encoder) = <<0, 0>>

C24_InitialReadRecoversState ==
    pc = "flushed" =>
        LET r == read_bits(BitReaderNew(writer.output), sbits)
        IN  /\ r.ok
            /\ Value(r.bits) = encoder.state

\* The bytes of a message have been flushed whose numeral lies partly in a
\* full accumulation word and partly in the word after it.
C24_Witness ==
    /\ pc = "flushed"
    /\ sbits > 0
    /\ Len(encoder.output) >= 1
    /\ encoder.need_bits > WordBits - sbits
    /\ encoder.need_bits < WordBits

(***************************************************************************)
(* A second message on the same Encoder.                                   *)
(***************************************************************************)
RECURSIVE EncodeSyms(_, _, _)
\* encode_sym(m[i]), ..., encode_sym(m[Len(m)]) on the encoder e.
EncodeSyms(e, m, i) ==
    IF i > Len(m) THEN e ELSE EncodeSyms(encode_sym(e, m[i]), m, i + 1)

\* The BitWriter after a new Encoder has encoded and written the message m.
FreshlyWritten(m) ==
    write(EncodeSyms(encode_first(EncoderNew(sbits, freqs), m[1]), m, 2),
          BitWriterNew).writer

\* C25: after write(), a second message encoded on the same Encoder and
\* written gives the BitWriter exactly the bits that a newly constructed
\* Encoder with the same sbits and freqs gives it for that message.
C25_SecondMessageAsFresh ==
    (pc = "written" /\ written # <<>>) => writer = FreshlyWritten(msg)

\* C26 as claimed: the offset of symbol s is (R_s - freqs[s]) mod L, R_s
\* being the occurrences of the symbols up to and including s.
C26_OffsetFromInclusiveCount ==
    (pc # "panic" /\ ValidDist(sbits, freqs)) =>
        \A s \in Syms :
            encoder.symtab[s + 1][2] =
                (CumFreq(freqs, s + 1) - freqs[s + 1]) % encoder.nstates

\* C26 as amended: the offset of symbol s is (c_s - freqs[s]) mod L, c_s
\* being the occurrences of the symbols before s, s itself left out.
C26_OffsetFromPriorCount ==
    (pc # "panic" /\ ValidDist(sbits, freqs)) =>
        \A s \in Syms :
            encoder.symtab[s + 1][2] =
                (CumFreq(freqs, s) - freqs[s + 1]) % encoder.nstates

\* The test encoder_new: Encoder::new(3, [2, 5, 1]) has stored the offsets
\* 6, 5 and 6.
C26_Witness ==
    /\ IsExample
    /\ pc = "enc"
    /\ [s \in 1..3 |-> encoder.symtab[s][2]] = <<6, 5, 6>>

(***************************************************************************)
(* encode_first.                                                           *)
(***************************************************************************)
EncodeFirstStep == pc = "enc" /\ msg = <<>> /\ msg' # <<>>

\* C27: encode_first(sym) changes the state field only: the output words,
\* the pending bits, need_bits and the tables symtab, origin and nstates
\* stay as they are, nothing reaches the BitWriter, and the new state is
\* the one encode_sym(sym) reaches from state 0.
C27_EncodeFirstEmitsNothing ==
    [][EncodeFirstStep =>
          /\ encoder'.output = encoder.output
          /\ encoder'.bits = encoder.bits
          /\ encoder'.need_bits = encoder.need_bits
          /\ encoder'.symtab = encoder.symtab
          /\ encoder'.origin = encoder.origin
          /\ encoder'.nstates = encoder.nstates
          /\ encoder'.state = encode_sym(AtState(0), msg'[1]).state
          /\ writer' = writer]_vars

\* encode_first has been called on an Encoder that holds the bits of a
\* message written before and is in a state other than 0.
C27_Witness ==
    /\ pc = "enc"
    /\ written # <<>>
    /\ Len(msg) = 1
    /\ encoder.need_bits < WordBits
    /\ encoder.state # 0

(***************************************************************************)
(* The accumulation register.                                              *)
(***************************************************************************)
RECURSIVE BitsEmitted(_, _, _)
\* The sum of the bit counts of encode_sym(m[i]), ..., encode_sym(m[Len(m)])
\* called on the encoder e.
BitsEmitted(e, m, i) ==
    IF i > Len(m) THEN 0
    ELSE encode_nbits(e, m[i]) + BitsEmitted(encode_sym(e, m[i]), m, i + 1)

\* C28: after Encoder::new and after every sequence of encode_first and
\* encode_sym calls on a distribution with sum 2^sbits, need_bits lies in
\* 1..32, the need_bits low bits of the register are zero, the state is
\* below nstates and 32 * len(output) + (32 - need_bits) is the sum of the
\* bit counts of the encode_sym calls made.
C28_AccumulatorInvariant ==
    (pc = "enc" /\ ValidDist(sbits, freqs)) =>
        /\ encoder.need_bits \in 1..WordBits
        /\ \A i \in 0..(encoder.need_bits - 1) : encoder.bits[i] = 0
        /\ encoder.state < encoder.nstates
        /\ WordBits * Len(encoder.output) + (WordBits - encoder.need_bits) =
               IF msg = <<>> THEN 0
               ELSE BitsEmitted(encode_first(EncoderNew(sbits, freqs), msg[1]), msg, 2)

\* The encode_sym calls of a message have emitted more than 32 bits: a
\* word has been pushed and the register is partly filled again.
C28_Witness ==
    /\ pc = "enc"
    /\ ValidDist(sbits, freqs)
    /\ Len(encoder.output) = 1
    /\ encoder.need_bits < WordBits

(***************************************************************************)
(* Range coder arithmetic.                                                 *)
(***************************************************************************)
\* C29: from Encoder::new, through encode_bit calls with any p0, each
\* followed by one normalize when needs_normalize() holds, every state has
\* (low mod 2^24) + range <= 2^24 - 1 and range below 2^24, so that
\* range * p0 is below 2^32, and has threshold + 1 <= range for every p0,
\* so that encoding a 1 bit subtracts no more than range; the same bounds
\* hold between encode_bit and normalize, and no addition to low, that of
\* flush included, overflows.
C29_EncoderStaysInBounds ==
    /\ pc # "panic"
    /\ rc_enc.low.lo + rc_enc.range <= MAX_RANGE
    /\ rc_enc.range >= 0
    /\ rc_enc.range <= MAX_RANGE
    /\ ~U32AddOverflows(rc_enc.low, rc_enc.range)
    /\ \A p0 \in 0..(2^PROB_BITS - 1) :
          /\ compute_threshold(rc_enc.range, p0) + 1 <= rc_enc.range
          /\ \A bit \in BOOLEAN :
                LET e == encode_bit(rc_enc, p0, bit)
                IN  /\ ~e.panic
                    /\ e.enc.range >= 0
                    /\ e.enc.low.lo + e.enc.range <= MAX_RANGE

\* A 0 bit with p0 = 0 has taken range to 0 and normalize has made it 0xff;
\* a 1 bit has been encoded after it.
C29_Witness ==
    /\ pc = "rc_enc"
    /\ Len(rc_seq) >= 2
    /\ rc_seq[1] = <<0, FALSE>>
    /\ rc_seq[2][2]
    /\ rc_out # <<>>

RECURSIVE NormalizeTimes(_, _, _)
\* n consecutive Decoder::normalize calls, each reading the byte b.
NormalizeTimes(self, b, n) ==
    IF n = 0 THEN self ELSE NormalizeTimes(decoder_normalize(self, b), b, n - 1)

\* The least number of consecutive normalize calls after which
\* needs_normalize() is false; -1 when four calls do not suffice.
NormalizesNeeded(self, b) ==
    IF \E k \in 0..4 : ~decoder_needs_normalize(NormalizeTimes(self, b, k))
    THEN CHOOSE k \in 0..4 :
           /\ ~decoder_needs_normalize(NormalizeTimes(self, b, k))
           /\ \A j \in 0..(k - 1) : decoder_needs_normalize(NormalizeTimes(self, b, j))
    ELSE -1

\* C30: a new Decoder needs exactly three normalize calls before
\* needs_normalize() is false; from every state reached by decode_bit with
\* any p0 and by normalize, called only while needed and with any byte,
\* at most three consecutive normalize calls make needs_normalize() false;
\* in all these states code <= range and no decode_bit has panicked.
C30_NormalizationTerminates ==
    /\ pc # "panic"
    /\ \A b \in RcBytes :
          /\ NormalizesNeeded(BrcDecoderNew, b) = 3
          /\ NormalizesNeeded(rc_dec, b) \in 0..3
    /\ rc_dec.code.hi = 0
    /\ rc_dec.code.lo <= rc_dec.range

\* After two decoded bits, the second a 1 bit, range is so small that three
\* normalize calls are needed again.
C30_Witness ==
    /\ pc = "rc_dec"
    /\ Len(rc_bits) >= 2
    /\ rc_bits[2]
    /\ rc_dec.low # U32Of(0)
    /\ \A b \in RcBytes : NormalizesNeeded(rc_dec, b) = 3
====
